---- MODULE Spec2Model ----
(***************************************************************************)
(* Synchronator.py: two-way synchronisation of a local tree with a        *)
(* Dropbox app folder.  Three specifications share this module:            *)
(*   SpecScan   - the candidate scan of check_local and its two filters    *)
(*   SpecUpload - the transfer protocol of DropboxState.upload             *)
(*   Spec       - whole runs: remote pass, save, local pass, save          *)
(* A file or directory name is a sequence of one-character strings, a      *)
(* path is a sequence of names.                                            *)
(***************************************************************************)
EXTENDS Integers, Sequences, FiniteSets, TLC

VARIABLES
    \* ---- SpecScan: check_local's walk
    scan_pc,            \* "idle" | "walked"
    scan_dirs,          \* directories of the tree (relative paths, <<>> is the root)
    scan_files,         \* files of the tree (relative paths)
    filelist,           \* check_local: filelist
    \* ---- SpecUpload: DropboxState.upload
    up_pc,              \* "idle" | "loop" | "finish" | "simple" | "done"
    size,               \* os.path.getsize(path)
    pos,                \* read position of local_fr
    data,               \* the chunk last read: [from, len]
    close,              \* upload: close
    session_id,         \* None or the session
    session_cursor,     \* None or the cursor's offset
    offset,             \* upload: offset
    calls,              \* remote calls issued so far, in order
    \* ---- Spec: whole runs
    pc,                 \* "list" | "entries" | "scan" | "local" | "done" | "crashed"
    run,                \* number of the run in progress
    lmtime,             \* local files: path -> mtime, 0 when there is no file
    ldirs,              \* local directories
    rrev,               \* Dropbox files: path -> rev, 0 when there is no file
    rdirs,              \* Dropbox folders
    nextRev,            \* the rev Dropbox gives to the next upload
    local_files,        \* DropboxState.local_files
    remote_files,       \* DropboxState.remote_files
    disk,               \* the pickled state in STATE_FILENAME
    pages,              \* pages of the listing not fetched yet
    page,               \* entries of the current page not processed yet
    current_remote_file_paths,
    prefer_remote,      \* __process_remote_entries: prefer_remote, "None" | "True" | "False"
    todo,               \* check_local: candidates not yet given to check_state
    oldlist,            \* check_local: tracked paths not yet given to delete_remote
    ev,                 \* what this run did, per kind and path
    runlog,             \* the listing calls, the directories listed and removed, the batch answer
    start,              \* the trees and the state as the run found them
    prev                \* how the previous run ended

scanVars == <<scan_pc, scan_dirs, scan_files>>
upVars == <<up_pc, size, pos, data, close, session_id, session_cursor, offset, calls>>
fsVars == <<lmtime, ldirs, rrev, rdirs, nextRev>>
tables == <<local_files, remote_files>>
ctlVars == <<pc, run, pages, page, current_remote_file_paths, prefer_remote, todo, oldlist>>
histVars == <<ev, runlog, start, prev>>
syncVars == <<fsVars, tables, disk, ctlVars, histVars>>
vars == <<scanVars, filelist, upVars, syncVars>>

None == "None"

\* session_cursor = NoCursor (line 210): no cursor yet
NoCursor == -1

Min(a, b) == IF a < b THEN a ELSE b

\* ------------------------------------------------------------------------
\* Names and the two filters
\* ------------------------------------------------------------------------
STATE_FILENAME == <<".", "d", "r", "o", "p", "b", "o", "x", "_", "s", "t", "a", "t", "e">>

Dot == <<".">>

\* str.startswith / str.endswith
startswith(s, p) == Len(s) >= Len(p) /\ SubSeq(s, 1, Len(p)) = p
endswith(s, p) == Len(s) >= Len(p) /\ SubSeq(s, Len(s) - Len(p) + 1, Len(s)) = p

\* dir is os.walk's root split at the separator: <<Dot>> for '.', <<Dot, a, b>> for './a/b'
valid_dir_for_upload(dir) ==
    IF dir = <<Dot>> THEN TRUE
    ELSE IF Len(dir) > 1
         THEN IF startswith(dir[2], <<"s", "i", "t", "e">>) THEN FALSE
              ELSE IF dir[2] \in {<<"t", "e", "m", "p">>,
                                  <<"E", "x", "a", "m", "p", "l", "e", "s">>} THEN FALSE
              ELSE IF dir[Len(dir)] # Dot /\ startswith(dir[Len(dir)], Dot) THEN FALSE
              ELSE TRUE
         ELSE TRUE

valid_filename_for_upload(filename) ==
    ~ \/ filename = STATE_FILENAME
      \/ startswith(filename, <<".">>)
      \/ startswith(filename, <<"@">>)
      \/ endswith(filename, <<"~">>)
      \/ endswith(filename, <<".", "p", "y", "c">>)
      \/ endswith(filename, <<".", "p", "y", "o">>)

\* ------------------------------------------------------------------------
\* check_local, first half: the walk that builds filelist
\* ------------------------------------------------------------------------
dirname(p) == SubSeq(p, 1, Len(p) - 1)
basename(p) == p[Len(p)]

\* os.walk's root string for the directory d, and os.path.join(root, name)[2:]
WalkRoot(d) == <<Dot>> \o d
JoinStrip(root, name) == Tail(root \o <<name>>)

MaxLen(S) == IF S = {} THEN 0 ELSE CHOOSE n \in {Len(p) : p \in S} : \A q \in S : Len(q) <= n

\* one level of the top-down walk: what the directories of this depth add to invaliddirs
WalkInvalidNoDescend(dirs, level, invaliddirs) ==
    invaliddirs \cup {d \in level : ~valid_dir_for_upload(WalkRoot(d))}

WalkInvalid(dirs, level, invaliddirs) ==
    LET bad == {d \in level : d \in invaliddirs \/ ~valid_dir_for_upload(WalkRoot(d))}
    IN  invaliddirs \cup {d \in level : d \notin invaliddirs /\ ~valid_dir_for_upload(WalkRoot(d))}
                    \cup {c \in dirs : Len(c) > 0 /\ dirname(c) \in bad}

WalkFiles(files, level, invaliddirs) ==
    {JoinStrip(WalkRoot(dirname(f)), basename(f)) :
        f \in {g \in files : /\ dirname(g) \in level
                             /\ dirname(g) \notin invaliddirs
                             /\ valid_dir_for_upload(WalkRoot(dirname(g)))
                             /\ valid_filename_for_upload(basename(g))}}

RECURSIVE walk(_, _, _, _, _)
walk(dirs, files, depth, invaliddirs, found) ==
    IF depth > MaxLen(dirs) THEN found
    ELSE LET level == {d \in dirs : Len(d) = depth}
         IN  walk(dirs, files, depth + 1,
                  WalkInvalid(dirs, level, invaliddirs),
                  found \cup WalkFiles(files, level, invaliddirs))

\* the candidate set of check_local for a tree
check_local_filelist(dirs, files) == walk(dirs, files, 0, {}, {})

\* ---- SpecScan
MaxDepth == 2

N_a == <<"a">>
N_hidden == <<".", "h">>
N_sub == <<"s", "u", "b">>
N_site == <<"s", "i", "t", "e", "1">>
N_temp == <<"t", "e", "m", "p">>
ScanDirNames == {N_a, N_hidden, N_sub, N_site, N_temp}

N_keep == <<"k", ".", "t">>
N_foo == <<".", "f">>
N_bar == <<"@", "b">>
N_baz == <<"z", "~">>
N_pyc == <<"q", ".", "p", "y", "c">>
N_pyo == <<"q", ".", "p", "y", "o">>
ScanFileNames == {N_keep, N_foo, N_bar, N_baz, N_pyc, N_pyo, STATE_FILENAME}

Chains == UNION {[1..n -> ScanDirNames] : n \in 0..MaxDepth}
Prefixes(c) == {SubSeq(c, 1, n) : n \in 0..Len(c)}

UpIdle ==
    /\ up_pc = "off" /\ size = 0 /\ pos = 0 /\ data = [from |-> 0, len |-> 0]
    /\ close = FALSE /\ session_id = None /\ session_cursor = NoCursor
    /\ offset = 0 /\ calls = <<>>

ScanIdle ==
    /\ scan_pc = "off" /\ scan_dirs = {} /\ scan_files = {}

SyncIdle ==
    /\ pc = "off" /\ run = 0
    /\ lmtime = <<>> /\ ldirs = {} /\ rrev = <<>> /\ rdirs = {} /\ nextRev = 0
    /\ local_files = <<>> /\ remote_files = <<>> /\ disk = <<>>
    /\ pages = <<>> /\ page = <<>> /\ current_remote_file_paths = {}
    /\ prefer_remote = None /\ todo = {} /\ oldlist = {}
    /\ ev = <<>> /\ runlog = <<>> /\ start = <<>> /\ prev = <<>>

InitScan ==
    /\ \E c1 \in Chains, c2 \in Chains :
          /\ scan_dirs = Prefixes(c1) \cup Prefixes(c2)
          /\ scan_files = {d \o <<n>> : d \in Prefixes(c1) \cup Prefixes(c2), n \in ScanFileNames}
    /\ scan_pc = "idle"
    /\ filelist = {}
    /\ UpIdle
    /\ SyncIdle

check_local_scan ==
    /\ scan_pc = "idle"
    /\ filelist' = check_local_filelist(scan_dirs, scan_files)
    /\ scan_pc' = "walked"
    /\ UNCHANGED <<scan_dirs, scan_files, upVars, syncVars>>

NextScan == check_local_scan

SpecScan == InitScan /\ [][NextScan]_vars

\* ------------------------------------------------------------------------
\* DropboxState.upload: simple mode and session mode
\* ------------------------------------------------------------------------
Threshold == 140000000
ChunkSize == 10000000

MaxExtraChunks == 2

UploadSizes ==
    {0, 1, ChunkSize, Threshold - 1, Threshold, Threshold + 1}
    \cup {k * ChunkSize + d : k \in 15..(15 + MaxExtraChunks), d \in {-1, 0, 1}}

\* size > 140000000
use_session_inclusive(sz) == sz >= Threshold
use_session(sz) == sz > Threshold

\* local_fr.read(n) at position p of a file of sz bytes
read_again(p, sz, n) == [from |-> 0, len |-> Min(n, sz - p)]
read(p, sz, n) == [from |-> p, len |-> Min(n, sz - p)]

\* close = len(data) < 10000000
is_close_inclusive(d) == d.len <= ChunkSize
is_close(d) == d.len < ChunkSize

\* offset += len(data)
next_offset_stale(off, d) == off
next_offset(off, d) == off + d.len

Call(op, d, cursor) == [op |-> op, from |-> d.from, len |-> d.len, cursor |-> cursor]

InitUpload ==
    /\ up_pc = "idle"
    /\ size \in UploadSizes
    /\ pos = 0 /\ data = [from |-> 0, len |-> 0]
    /\ close = FALSE /\ session_id = None /\ session_cursor = NoCursor
    /\ offset = 0 /\ calls = <<>>
    /\ ScanIdle /\ filelist = {}
    /\ SyncIdle

\* lines 204-211: choose the mode; in session mode read the first chunk
upload_open ==
    /\ up_pc = "idle"
    /\ IF use_session(size)
       THEN LET d == read(0, size, ChunkSize)
            IN  /\ data' = d
                /\ pos' = d.len
                /\ close' = is_close(d)
                /\ up_pc' = IF is_close(d) THEN "finish" ELSE "loop"
       ELSE /\ up_pc' = "simple"
            /\ UNCHANGED <<data, pos, close>>
    /\ session_id' = None /\ session_cursor' = NoCursor /\ offset' = 0
    /\ UNCHANGED <<size, calls, scanVars, filelist, syncVars>>

\* lines 220-231: the part of a loop iteration after the remote call
LoopTail ==
    LET off == next_offset(offset, data)
        d == read(pos, size, ChunkSize)
    IN  /\ offset' = off
        /\ session_cursor' = off
        /\ data' = d
        /\ pos' = pos + d.len
        /\ close' = is_close(d)
        /\ up_pc' = IF is_close(d) THEN "finish" ELSE "loop"

\* lines 213-215, 220-231: first iteration, files_upload_session_start
upload_session_start ==
    /\ up_pc = "loop" /\ ~close /\ session_id = None
    /\ calls' = Append(calls, Call("start", data, NoCursor))
    /\ session_id' = "sid"
    /\ LoopTail
    /\ UNCHANGED <<size, scanVars, filelist, syncVars>>

\* lines 216-231: later iterations, files_upload_session_append_v2
upload_session_append ==
    /\ up_pc = "loop" /\ ~close /\ session_id # None
    /\ calls' = Append(calls, Call("append", data, session_cursor))
    /\ UNCHANGED session_id
    /\ LoopTail
    /\ UNCHANGED <<size, scanVars, filelist, syncVars>>

\* lines 232-236: files_upload_session_finish with the chunk read last
upload_session_finish ==
    /\ up_pc = "finish"
    /\ calls' = Append(calls, Call("finish", data, session_cursor))
    /\ up_pc' = "done"
    /\ UNCHANGED <<size, pos, data, close, session_id, session_cursor, offset, scanVars, filelist, syncVars>>

\* lines 239-243: files_upload with the whole content
upload_simple ==
    /\ up_pc = "simple"
    /\ LET d == read(0, size, size)
       IN  /\ data' = d
           /\ pos' = d.len
           /\ calls' = Append(calls, Call("upload", d, NoCursor))
    /\ up_pc' = "done"
    /\ UNCHANGED <<size, close, session_id, session_cursor, offset, scanVars, filelist, syncVars>>

NextUpload ==
    \/ upload_open
    \/ upload_session_start
    \/ upload_session_append
    \/ upload_session_finish
    \/ upload_simple

SpecUpload == InitUpload /\ [][NextUpload]_vars

\* ------------------------------------------------------------------------
\* Whole runs: the trees, the state tables and the remote store
\* ------------------------------------------------------------------------
MaxRuns == 2
MaxPage == 2

N_b == <<"b">>
P_h == <<N_a, N_b, <<"h">>>>             \* a/b/h
P_g == <<N_a, <<".", "g">>>>             \* a/.g
P_f == << <<"f">> >>                     \* f
Paths == {P_h, P_g, P_f}
D_a == <<N_a>>
D_ab == <<N_a, N_b>>

\* the order in which Dropbox lists what it holds
ListingOrder == <<D_a, D_ab, P_h, P_g, P_f>>

Slash == <<"/">>
\* '/' + path, os.path.join('/', path); and path_display[1:]
RemotePath(p) == <<Slash>> \o p
LocalPath(display) == Tail(display)

Ancestors(p) == {SubSeq(p, 1, n) : n \in 1..(Len(p) - 1)}

\* mtimes of the files found at the first run: synced, and edited since
T0 == 1
T1 == T0 + 1
R0 == 1
R1 == R0 + 1
\* the clock of the run: what a download of this run leaves as mtime
Now == T1 + run

Meta(rev, modified) == [rev |-> rev, modified |-> modified]
Put(tbl, p, meta) == [q \in DOMAIN tbl \cup {p} |-> IF q = p THEN meta ELSE tbl[q]]
Del(tbl, p) == [q \in DOMAIN tbl \ {p} |-> tbl[q]]

EvKinds == {"prompt", "memo", "dl_plain", "dl_conflict", "ul_conflict", "ul_local",
            "delete_local", "delete_remote", "fail", "delete_fail", "oserror"}
TransferKinds == {"dl_plain", "dl_conflict", "ul_conflict", "ul_local"}
NoEvents == [k \in EvKinds |-> [p \in Paths |-> 0]]
Bump(e, k, p) == [e EXCEPT ![k][p] = @ + 1]
NoRunlog == [list_failed |-> FALSE, fetched |-> 0, batch |-> None,
             rlisted |-> {}, rdeleted |-> {}, rfailed |-> {}, lremoved |-> {}]

\* ---- the local tree
isfile(p) == p \in Paths /\ lmtime[p] > 0
exists(p) == isfile(p) \/ p \in ldirs

\* os.listdir(d) is not empty; the root holds STATE_FILENAME whenever a path is tracked
LNonEmpty(ld, lm, d) ==
    \/ d = <<>>
    \/ \E p \in Paths : lm[p] > 0 /\ dirname(p) = d
    \/ \E c \in ld : dirname(c) = d

\* os.removedirs(d): rmdir d, then every ancestor that rmdir accepts
RECURSIVE removedirs(_, _, _)
removedirs(ld, lm, d) ==
    IF d = <<>> \/ d \notin ld \/ LNonEmpty(ld, lm, d) THEN ld
    ELSE removedirs(ld \ {d}, lm, dirname(d))

\* os.makedirs(d)
makedirs(ld, d) == ld \cup {d} \cup Ancestors(d)

\* lines 124-129 and 141-146: remove the file's directory when it exists and is empty
RemoveEmptyDirLeaf(ld, lm, p) ==
    LET d == dirname(p)
    IN  IF d # <<>> /\ d \in ld /\ ~LNonEmpty(ld, lm, d) THEN ld \ {d} ELSE ld

RemoveEmptyDir(ld, lm, p) ==
    LET d == dirname(p)
    IN  IF d # <<>> /\ d \in ld /\ ~LNonEmpty(ld, lm, d) THEN removedirs(ld, lm, d) ELSE ld

\* line 107; os.path.getmtime raises when there is no file
check_local_update_reversed(p) == lmtime[p] < local_files[p].modified
check_local_update(p) == lmtime[p] > local_files[p].modified

\* ---- the remote store
\* files_list_folder('', recursive): file and folder entries, in listing order
Entry(x) ==
    IF x \in rdirs THEN [kind |-> "folder", path_display |-> RemotePath(x), rev |-> 0]
    ELSE [kind |-> "file", path_display |-> RemotePath(x), rev |-> rrev[x]]

Listed(x) == x \in rdirs \/ (x \in Paths /\ rrev[x] > 0)

RECURSIVE EntriesFrom(_)
EntriesFrom(i) ==
    IF i > Len(ListingOrder) THEN <<>>
    ELSE (IF Listed(ListingOrder[i]) THEN <<Entry(ListingOrder[i])>> ELSE <<>>)
         \o EntriesFrom(i + 1)

RECURSIVE Paginate(_, _)
Paginate(es, n) ==
    IF Len(es) <= n THEN <<es>>
    ELSE <<SubSeq(es, 1, n)>> \o Paginate(SubSeq(es, n + 1, Len(es)), n)

\* files_list_folder(dir).entries is not empty
RNonEmpty(rd, rr, d) ==
    \/ \E p \in Paths : rr[p] > 0 /\ dirname(p) = d
    \/ \E c \in rd : dirname(c) = d

\* ---- Init: the state after load_state of the first run.  Every path is
\* tracked or not, present or not on either side, edited or not on either side.
LocalDirChoices(lm) ==
    LET need == UNION {Ancestors(p) : p \in {q \in Paths : lm[q] > 0}}
    IN  {need \cup extra : extra \in {{}, {D_a}, {D_a, D_ab}}}

RemoteDirChoices(rr) ==
    LET need == UNION {Ancestors(p) : p \in {q \in Paths : rr[q] > 0}}
    IN  {need} \cup (IF rr[P_f] = 0 THEN {need \cup {P_f}} ELSE {})

Snapshot(lf, lm, ld, rr, rd) ==
    [local_files |-> lf, lmtime |-> lm, ldirs |-> ld, rrev |-> rr, rdirs |-> rd]

Init ==
    /\ \E tracked \in SUBSET Paths :
       \E lm \in [Paths -> {0, T0, T1}], rr \in [Paths -> {0, R0, R1}] :
          /\ \A p \in Paths \ tracked : lm[p] # T1 /\ rr[p] # R1
          /\ lmtime = lm
          /\ rrev = rr
          /\ ldirs \in LocalDirChoices(lm)
          /\ rdirs \in RemoteDirChoices(rr)
          /\ local_files = [p \in tracked |-> Meta(R0, T0)]
    /\ remote_files = local_files
    /\ disk = [local_files |-> local_files, remote_files |-> remote_files]
    /\ nextRev = R1 + 1
    /\ pc = "list" /\ run = 1
    /\ pages = <<>> /\ page = <<>> /\ current_remote_file_paths = {}
    /\ prefer_remote = None /\ todo = {} /\ oldlist = {} /\ filelist = {}
    /\ ev = NoEvents /\ runlog = NoRunlog
    /\ start = Snapshot(local_files, lmtime, ldirs, rrev, rdirs)
    /\ prev = [done |-> FALSE, failed |-> {}, moved |-> FALSE]
    /\ ScanIdle /\ UpIdle

\* ---- transfers
\* lines 165-170 and 244-247: the record is written after the remote call returned
record_meta_always(tbl, p, meta, returned) == Put(tbl, p, meta)
record_meta(tbl, p, meta, returned) == IF returned THEN Put(tbl, p, meta) ELSE tbl

\* files_download_to_file returns: the store answers and the target is no directory
DownloadReturns(p, ok) == ok /\ p \notin ldirs /\ rrev[p] > 0
\* files_upload / the session returns: the store answers and holds no folder at the path
UploadReturns(p, ok) == ok /\ p \notin rdirs

\* lines 165-168 and 244-245: the record of a transfer
download_meta(p) == Meta(rrev[p], Now)
upload_meta_old_rev(p) == Meta(rrev[p], lmtime[p])
upload_meta(p) == Meta(nextRev, lmtime[p])

\* download_remote, lines 158-170
download_remote(p, kind, ok, e) ==
    LET head == dirname(p)
        returned == DownloadReturns(p, ok)
        meta == download_meta(p)
    IN  /\ ldirs' = IF head # <<>> /\ ~exists(head) THEN makedirs(ldirs, head) ELSE ldirs
        /\ lmtime' = IF returned THEN [lmtime EXCEPT ![p] = Now] ELSE lmtime
        /\ local_files' = record_meta(local_files, p, meta, returned)
        /\ remote_files' = record_meta(remote_files, p, meta, returned)
        /\ ev' = Bump(e, IF returned THEN kind ELSE "fail", p)
        /\ UNCHANGED <<rrev, rdirs, nextRev>>

\* upload, lines 201-247 (the protocol of the remote calls is SpecUpload's)
upload(p, kind, ok, e) ==
    LET returned == UploadReturns(p, ok)
        meta == upload_meta(p)
    IN  /\ rrev' = IF returned THEN [rrev EXCEPT ![p] = nextRev] ELSE rrev
        /\ rdirs' = IF returned THEN rdirs \cup Ancestors(p) ELSE rdirs
        /\ nextRev' = IF returned THEN nextRev + 1 ELSE nextRev
        /\ local_files' = record_meta(local_files, p, meta, returned)
        /\ remote_files' = record_meta(remote_files, p, meta, returned)
        /\ ev' = Bump(e, IF returned THEN kind ELSE "fail", p)
        /\ UNCHANGED <<lmtime, ldirs>>

\* ---- handle_conflict, lines 249-276
Answers == {<<"l">>, <<"r">>, <<"l", "a">>, <<"r", "a">>}

\* the side taken: the preference handed in, or the answer to the prompt
conflict_action(pref, answer) ==
    IF pref # None THEN pref = "True" ELSE startswith(answer, <<"r">>)

\* the value handed back to __process_remote_entries
conflict_return(pref, answer) ==
    IF pref # None THEN pref
    ELSE IF endswith(answer, <<"a">>)
         THEN (IF startswith(answer, <<"r">>) THEN "True" ELSE "False")
    ELSE None

\* one prompt, or one use of the preference handed in, then the transfer
handle_conflict(p, pref, answer, ok) ==
    LET e == Bump(ev, IF pref # None THEN "memo" ELSE "prompt", p)
    IN  /\ IF conflict_action(pref, answer)
           THEN download_remote(p, "dl_conflict", ok, e)
           ELSE upload(p, "ul_conflict", ok, e)
        /\ prefer_remote' = conflict_return(pref, answer)

ConflictReturns(p, pref, answer, ok) ==
    IF conflict_action(pref, answer) THEN DownloadReturns(p, ok) ELSE UploadReturns(p, ok)

\* ---- execute_delta, lines 172-180
\* line 279: each call of __process_remote_entries starts without a preference
page_preference(pref) == None

\* an exception of files_list_folder / files_list_folder_continue leaves execute_delta
list_failure_swallowed(pgs) == [pc |-> "entries", pages |-> <<>>]
list_failure(pgs) == [pc |-> "crashed", pages |-> pgs]

\* line 174
files_list_folder ==
    /\ pc = "list"
    /\ \/ \E n \in 1..MaxPage :
             LET pgs == Paginate(EntriesFrom(1), n)
             IN  /\ page' = Head(pgs)
                 /\ pages' = Tail(pgs)
                 /\ pc' = "entries"
                 /\ prefer_remote' = page_preference(prefer_remote)
                 /\ runlog' = [runlog EXCEPT !.fetched = @ + 1]
       \/ /\ pc' = list_failure(<<>>).pc
          /\ pages' = list_failure(<<>>).pages
          /\ runlog' = [runlog EXCEPT !.list_failed = TRUE]
          /\ UNCHANGED <<page, prefer_remote>>
    /\ UNCHANGED <<fsVars, tables, disk, run, current_remote_file_paths, todo, oldlist,
                   filelist, ev, start, prev, scanVars, upVars>>

\* lines 178-180: the page is done and has_more is set
files_list_folder_continue ==
    /\ pc = "entries" /\ page = <<>> /\ pages # <<>>
    /\ \/ /\ page' = Head(pages)
          /\ pages' = Tail(pages)
          /\ prefer_remote' = page_preference(prefer_remote)
          /\ runlog' = [runlog EXCEPT !.fetched = @ + 1]
          /\ UNCHANGED pc
       \/ /\ pc' = list_failure(pages).pc
          /\ pages' = list_failure(pages).pages
          /\ runlog' = [runlog EXCEPT !.list_failed = TRUE]
          /\ UNCHANGED <<page, prefer_remote>>
    /\ UNCHANGED <<fsVars, tables, disk, run, current_remote_file_paths, todo, oldlist,
                   filelist, ev, start, prev, scanVars, upVars>>

\* ---- __process_remote_entries, lines 280-302: one entry
process_file_entry ==
    /\ pc = "entries" /\ page # <<>> /\ Head(page).kind = "file"
    /\ LET entry == Head(page)
           path == LocalPath(entry.path_display)
       IN  /\ page' = Tail(page)
           /\ IF path \notin DOMAIN local_files
              THEN \E ok \in BOOLEAN :
                      /\ download_remote(path, "dl_plain", ok, ev)
                      /\ pc' = IF DownloadReturns(path, ok) THEN pc ELSE "crashed"
                      /\ UNCHANGED <<prefer_remote, runlog>>
              ELSE IF entry.rev # local_files[path].rev
              THEN IF ~isfile(path)
                   THEN \* os.path.getmtime raises
                        /\ pc' = "crashed"
                        /\ ev' = Bump(ev, "oserror", path)
                        /\ UNCHANGED <<fsVars, tables, prefer_remote, runlog>>
                   ELSE IF check_local_update(path)
                   THEN \E answer \in Answers, ok \in BOOLEAN :
                           /\ handle_conflict(path, prefer_remote, answer, ok)
                           /\ pc' = IF ConflictReturns(path, prefer_remote, answer, ok)
                                    THEN pc ELSE "crashed"
                           /\ runlog' = IF prefer_remote = None /\ runlog.batch = None
                                         THEN [runlog EXCEPT !.batch = conflict_return(None, answer)]
                                         ELSE runlog
                   ELSE \E ok \in BOOLEAN :
                           /\ download_remote(path, "dl_plain", ok, ev)
                           /\ pc' = IF DownloadReturns(path, ok) THEN pc ELSE "crashed"
                           /\ UNCHANGED <<prefer_remote, runlog>>
              ELSE UNCHANGED <<fsVars, tables, prefer_remote, pc, ev, runlog>>
           /\ current_remote_file_paths' =
                 IF pc' = "crashed" THEN current_remote_file_paths
                 ELSE current_remote_file_paths \cup {path}
    /\ UNCHANGED <<disk, run, pages, todo, oldlist, filelist, start, prev,
                   scanVars, upVars>>

\* make_local_dir, lines 191-199
make_local_dir(p) ==
    IF ~exists(p)
    THEN /\ ldirs' = makedirs(ldirs, p)
         /\ UNCHANGED <<lmtime, local_files, pc>>
    ELSE IF isfile(p)
    THEN \* os.remove, del self.local_files[path], then os.makedir, which os does not have
         /\ lmtime' = [lmtime EXCEPT ![p] = 0]
         /\ local_files' = Del(local_files, p)
         /\ pc' = "crashed"
         /\ UNCHANGED ldirs
    ELSE UNCHANGED <<lmtime, ldirs, local_files, pc>>

\* lines 299-302
process_folder_entry_unguarded ==
    /\ pc = "entries" /\ page # <<>> /\ Head(page).kind = "folder"
    /\ make_local_dir(LocalPath(Head(page).path_display))
    /\ page' = Tail(page)
    /\ UNCHANGED <<rrev, rdirs, nextRev, remote_files, disk, run, pages,
                   current_remote_file_paths, prefer_remote, todo, oldlist, filelist,
                   histVars, scanVars, upVars>>

process_folder_entry ==
    /\ pc = "entries" /\ page # <<>> /\ Head(page).kind = "folder"
    /\ LET path == LocalPath(Head(page).path_display)
       IN  IF ~exists(path)
           THEN make_local_dir(path)
           ELSE UNCHANGED <<lmtime, ldirs, local_files, pc>>
    /\ page' = Tail(page)
    /\ UNCHANGED <<rrev, rdirs, nextRev, remote_files, disk, run, pages,
                   current_remote_file_paths, prefer_remote, todo, oldlist, filelist,
                   histVars, scanVars, upVars>>

\* ---- execute_delta, lines 181-189: deletions by omission
ListingDone == pc = "entries" /\ page = <<>> /\ pages = <<>>

ToDeleteTracked ==
    {p \in DOMAIN remote_files : p \in DOMAIN local_files}

ToDelete ==
    {p \in DOMAIN remote_files : p \notin current_remote_file_paths /\ p \in DOMAIN local_files}

\* delete_local, lines 115-129
delete_local(p) ==
    LET lm == [lmtime EXCEPT ![p] = 0]
        ld == RemoveEmptyDir(ldirs, lm, p)
    IN  /\ lmtime' = lm
        /\ ldirs' = ld
        /\ local_files' = Del(local_files, p)
        /\ remote_files' = Del(remote_files, p)
        /\ ev' = Bump(ev, "delete_local", p)
        /\ runlog' = [runlog EXCEPT !.lremoved = @ \cup (ldirs \ ld)]

execute_delta_delete ==
    /\ ListingDone
    /\ \E p \in ToDelete : delete_local(p)
    /\ UNCHANGED <<rrev, rdirs, nextRev, disk, ctlVars, filelist, start, prev, scanVars, upVars>>

\* ---- save_state, lines 372-376
save_state_skipped == disk' = disk
save_state == disk' = [local_files |-> local_files, remote_files |-> remote_files]

\* line 427: after check_remote
save_state_remote ==
    /\ ListingDone /\ ToDelete = {}
    /\ save_state
    /\ pc' = "scan"
    /\ UNCHANGED <<fsVars, tables, run, pages, page, current_remote_file_paths, prefer_remote,
                   todo, oldlist, filelist, histVars, scanVars, upVars>>

\* ---- check_local, lines 305-327
\* lines 308-319 and 324-326: the candidates, and the tracked paths that are none
check_local_walk ==
    /\ pc = "scan"
    /\ LET found == check_local_filelist(ldirs \cup {<<>>}, {p \in Paths : lmtime[p] > 0})
       IN  /\ filelist' = found
           /\ todo' = found
           /\ oldlist' = {f \in DOMAIN local_files : f \notin found}
    /\ pc' = "local"
    /\ UNCHANGED <<fsVars, tables, disk, run, pages, page, current_remote_file_paths,
                   prefer_remote, histVars, scanVars, upVars>>

\* check_state, lines 109-113, for one candidate
check_state ==
    /\ pc = "local"
    /\ \E p \in todo :
          /\ todo' = todo \ {p}
          /\ IF p \notin DOMAIN remote_files \/ check_local_update(p)
             THEN \E ok \in BOOLEAN :
                     /\ upload(p, "ul_local", ok, ev)
                     /\ pc' = IF UploadReturns(p, ok) THEN pc ELSE "crashed"
             ELSE UNCHANGED <<fsVars, tables, ev, pc>>
    /\ UNCHANGED <<disk, run, pages, page, current_remote_file_paths, prefer_remote,
                   oldlist, filelist, runlog, start, prev, scanVars, upVars>>

\* ---- delete_remote, lines 131-156
RootOutcomes == {"raise", "entries", "empty"}
CascadeFailures ==
    {[at |-> 0, kind |-> "none", root |-> r] : r \in RootOutcomes}
    \cup {[at |-> k, kind |-> x, root |-> "raise"] : k \in 1..2, x \in {"list", "delete"}}

Listing(log, d) == [log EXCEPT !.rlisted = @ \cup {d}]

\* lines 148-156: the loop over the remote ancestors; dir is the remote path, k counts
\* the folders visited, fail places at most one failure of the store
RECURSIVE cascade_past_failure(_, _, _, _, _, _)
cascade_past_failure(rd, rr, dir, k, fail, log) ==
    LET d == LocalPath(dir)
    IN  IF ~(Len(dir) > 1) THEN [rdirs |-> rd, log |-> log, crashed |-> FALSE]
        ELSE IF d = <<Dot>>
        THEN [rdirs |-> rd,
              log |-> IF fail.root = "empty"
                      THEN [Listing(log, d) EXCEPT !.rfailed = @ \cup {d}]
                      ELSE Listing(log, d),
              crashed |-> fail.root = "raise"]
        ELSE IF (fail.at = k /\ fail.kind = "list") \/ d \notin rd
        THEN [rdirs |-> rd, log |-> Listing(log, d), crashed |-> TRUE]
        ELSE IF RNonEmpty(rd, rr, d)
        THEN [rdirs |-> rd, log |-> Listing(log, d), crashed |-> FALSE]
        ELSE IF fail.at = k /\ fail.kind = "delete"
        THEN cascade_past_failure(rd, rr, dirname(dir), k + 1, fail,
                                  [Listing(log, d) EXCEPT !.rfailed = @ \cup {d}])
        ELSE cascade_past_failure(rd \ {d}, rr, dirname(dir), k + 1, fail,
                                  [Listing(log, d) EXCEPT !.rdeleted = @ \cup {d}])

RECURSIVE cascade(_, _, _, _, _, _)
cascade(rd, rr, dir, k, fail, log) ==
    LET d == LocalPath(dir)
    IN  IF ~(Len(dir) > 1) THEN [rdirs |-> rd, log |-> log, crashed |-> FALSE]
        ELSE IF d = <<Dot>>
        THEN \* '/.': the store raises, or lists entries, or lists none and refuses the delete
             [rdirs |-> rd,
              log |-> IF fail.root = "empty"
                      THEN [Listing(log, d) EXCEPT !.rfailed = @ \cup {d}]
                      ELSE Listing(log, d),
              crashed |-> fail.root = "raise"]
        ELSE IF (fail.at = k /\ fail.kind = "list") \/ d \notin rd
        THEN [rdirs |-> rd, log |-> Listing(log, d), crashed |-> TRUE]
        ELSE IF RNonEmpty(rd, rr, d)
        THEN [rdirs |-> rd, log |-> Listing(log, d), crashed |-> FALSE]
        ELSE IF fail.at = k /\ fail.kind = "delete"
        THEN [rdirs |-> rd, log |-> [Listing(log, d) EXCEPT !.rfailed = @ \cup {d}],
              crashed |-> FALSE]
        ELSE cascade(rd \ {d}, rr, dirname(dir), k + 1, fail,
                     [Listing(log, d) EXCEPT !.rdeleted = @ \cup {d}])

\* files_delete('/' + path) returns: the store answers and holds the file
DeleteReturns(p, ok) == ok /\ rrev[p] > 0

delete_remote(p, ok, fail) ==
    LET dir == IF dirname(p) = <<>> THEN <<Dot>> ELSE dirname(p)
        rr == [rrev EXCEPT ![p] = 0]
        ld == RemoveEmptyDir(ldirs, lmtime, p)
        c == cascade(rdirs, rr, RemotePath(dir), 1, fail, runlog)
    IN  IF ~DeleteReturns(p, ok)
        THEN /\ ev' = Bump(ev, "delete_fail", p)
             /\ UNCHANGED <<fsVars, tables, runlog, pc>>
        ELSE /\ rrev' = rr
             /\ local_files' = Del(local_files, p)
             /\ remote_files' = Del(remote_files, p)
             /\ ldirs' = ld
             /\ rdirs' = c.rdirs
             /\ runlog' = [c.log EXCEPT !.lremoved = @ \cup (ldirs \ ld)]
             /\ ev' = Bump(ev, "delete_remote", p)
             /\ pc' = IF c.crashed THEN "crashed" ELSE pc
             /\ UNCHANGED <<lmtime, nextRev>>

\* lines 324-327, one tracked path that is no candidate
check_local_deleted ==
    /\ pc = "local" /\ todo = {}
    /\ \E p \in oldlist :
          /\ oldlist' = oldlist \ {p}
          /\ \E ok \in BOOLEAN, fail \in CascadeFailures : delete_remote(p, ok, fail)
    /\ UNCHANGED <<disk, run, pages, page, current_remote_file_paths, prefer_remote,
                   todo, filelist, start, prev, scanVars, upVars>>

\* line 431: after check_local
save_state_local ==
    /\ pc = "local" /\ todo = {} /\ oldlist = {}
    /\ save_state
    /\ pc' = "done"
    /\ UNCHANGED <<fsVars, tables, run, pages, page, current_remote_file_paths, prefer_remote,
                   todo, oldlist, filelist, histVars, scanVars, upVars>>

\* ---- the next run: load_state, lines 360-369
load_state ==
    /\ pc \in {"done", "crashed"} /\ run < MaxRuns
    /\ local_files' = disk.local_files
    /\ remote_files' = disk.remote_files
    /\ run' = run + 1
    /\ pc' = "list"
    /\ pages' = <<>> /\ page' = <<>> /\ current_remote_file_paths' = {}
    /\ prefer_remote' = None /\ todo' = {} /\ oldlist' = {} /\ filelist' = {}
    /\ ev' = NoEvents /\ runlog' = NoRunlog
    /\ start' = Snapshot(disk.local_files, lmtime, ldirs, rrev, rdirs)
    /\ prev' = [done |-> pc = "done",
                failed |-> {p \in Paths : ev["fail"][p] > 0},
                moved |-> \E k \in TransferKinds, p \in Paths : ev[k][p] > 0]
    /\ UNCHANGED <<fsVars, disk, scanVars, upVars>>

Next ==
    \/ files_list_folder
    \/ files_list_folder_continue
    \/ process_file_entry
    \/ process_folder_entry
    \/ execute_delta_delete
    \/ save_state_remote
    \/ check_local_walk
    \/ check_state
    \/ check_local_deleted
    \/ save_state_local
    \/ load_state

Spec == Init /\ [][Next]_vars


\* ------------------------------------------------------------------------
\* Properties of the upload protocol
\* ------------------------------------------------------------------------
RECURSIVE SentBefore(_)
\* bytes carried by the first n calls
SentBefore(n) == IF n = 0 THEN 0 ELSE SentBefore(n - 1) + calls[n].len

CallsOf(op) == {i \in 1..Len(calls) : calls[i].op = op}

SessionDone == up_pc = "done" /\ use_session(size)

\* C5 as stated: a session upload of exactly N*ChunkSize bytes issues N append
\* calls and one finish call, the finish call carrying the last full chunk at
\* offset N*ChunkSize - ChunkSize, and no zero-length chunk is sent.
C5_ChunkBoundaryAsClaimed ==
    (SessionDone /\ size % ChunkSize = 0) =>
        LET N == size \div ChunkSize
        IN  /\ Cardinality(CallsOf("append")) = N
            /\ Cardinality(CallsOf("finish")) = 1
            /\ \A i \in CallsOf("finish") :
                  calls[i].cursor = N * ChunkSize - ChunkSize /\ calls[i].len = ChunkSize
            /\ \A i \in 1..Len(calls) : calls[i].len > 0

\* C5 amended: a session upload of exactly N*ChunkSize bytes issues one start
\* call and N-1 append calls that carry the N full chunks (the last of them at
\* offset N*ChunkSize - ChunkSize), then one finish call at offset N*ChunkSize
\* that carries a zero-length chunk.
C5_ChunkBoundary ==
    (SessionDone /\ size % ChunkSize = 0) =>
        LET N == size \div ChunkSize
        IN  /\ Len(calls) = N + 1
            /\ calls[1].op = "start"
            /\ \A i \in 2..N : calls[i].op = "append"
            /\ \A i \in 1..N : calls[i].len = ChunkSize
            /\ calls[N].cursor = N * ChunkSize - ChunkSize
            /\ calls[N + 1] = [op |-> "finish", from |-> N * ChunkSize, len |-> 0,
                               cursor |-> N * ChunkSize]

C5_Witness ==
    /\ SessionDone /\ size = 16 * ChunkSize
    /\ Len(calls) = 17 /\ calls[17].op = "finish" /\ calls[17].len = 0

\* C6: every append call and the finish call of a session carry a cursor, and
\* its offset is the number of bytes sent by the earlier calls of the session.
C6_SessionOffset ==
    \A i \in 1..Len(calls) :
        calls[i].op \in {"append", "finish"} =>
            /\ calls[i].cursor # NoCursor
            /\ calls[i].cursor = SentBefore(i - 1)

C6_Witness ==
    /\ SessionDone /\ size % ChunkSize # 0
    /\ \E i \in CallsOf("finish") : calls[i].cursor = 15 * ChunkSize /\ calls[i].len > 0
    /\ Cardinality(CallsOf("append")) = 14

\* C7: a chunk shorter than ChunkSize goes out with the finish call only, and
\* the full chunks read before it go out with start or append, in file order,
\* each exactly once.
C7_LastChunk ==
    /\ \A i \in 1..Len(calls) :
          (use_session(size) /\ calls[i].len < ChunkSize) => calls[i].op = "finish"
    /\ \A i \in 1..Len(calls) :
          (use_session(size) /\ calls[i].op # "finish") =>
              /\ calls[i].op = IF i = 1 THEN "start" ELSE "append"
              /\ calls[i].from = (i - 1) * ChunkSize
              /\ calls[i].len = ChunkSize
    /\ SessionDone =>
          LET n == size \div ChunkSize
          IN  /\ Len(calls) = n + 1
              /\ calls[n + 1].op = "finish"
              /\ calls[n + 1].from = n * ChunkSize
              /\ calls[n + 1].len = size - n * ChunkSize

C7_Witness ==
    /\ SessionDone /\ size = 15 * ChunkSize - 1
    /\ calls[Len(calls)].op = "finish" /\ calls[Len(calls)].len = ChunkSize - 1
    /\ Cardinality(CallsOf("append")) = 13

\* ------------------------------------------------------------------------
\* Properties of the candidate scan
\* ------------------------------------------------------------------------
\* C9: the candidates are exactly the files whose name passes
\* valid_filename_for_upload and whose directories, from the file's own up to
\* the one below the root, all pass valid_dir_for_upload; nothing beneath an
\* excluded directory and no .foo, @bar, baz~ or qux.pyc is a candidate.
C9_FilterExact ==
    scan_pc = "walked" =>
        /\ filelist = {f \in scan_files :
                         /\ valid_filename_for_upload(basename(f))
                         /\ \A n \in 1..(Len(f) - 1) :
                               valid_dir_for_upload(WalkRoot(SubSeq(f, 1, n)))}
        /\ \A f \in filelist :
              /\ \A n \in 1..(Len(f) - 1) : f[n] # N_hidden
              /\ basename(f) \notin {N_foo, N_bar, N_baz, N_pyc}

C9_Witness ==
    /\ scan_pc = "walked"
    /\ <<N_hidden, N_sub, N_keep>> \in scan_files \ filelist
    /\ <<N_a, N_sub, N_keep>> \in filelist
    /\ <<N_a, N_sub, N_pyc>> \in scan_files \ filelist

\* ------------------------------------------------------------------------
\* Properties of whole runs
\* ------------------------------------------------------------------------
Count(k, p) == ev[k][p]
Transfers(p) == Count("dl_plain", p) + Count("dl_conflict", p)
                + Count("ul_conflict", p) + Count("ul_local", p)

\* C1: a run that follows a completed run, with nothing changed in between,
\* uploads nothing and downloads nothing (and attempts no transfer that fails).
C1_Convergence ==
    (run > 1 /\ prev.done) => \A p \in Paths : Transfers(p) + Count("fail", p) = 0

C1_Witness ==
    /\ run = 2 /\ pc = "done" /\ prev.done /\ prev.moved
    /\ DOMAIN local_files # {}

\* C2: delete_local is called only after every page of the listing has been
\* consumed, and never in a run in which a listing call failed.
C2_NoFalseDeletion ==
    (\E p \in Paths : Count("delete_local", p) > 0) =>
        /\ ~runlog.list_failed
        /\ page = <<>> /\ pages = <<>>
        /\ \A q \in Paths : start.rrev[q] > 0 => q \in current_remote_file_paths

C2_Witness ==
    /\ \E p \in Paths : Count("delete_local", p) > 0
    /\ runlog.fetched >= 2
    /\ current_remote_file_paths # {}

\* a tracked path that both sides changed since the state was recorded
ConflictAtStart(p) ==
    /\ p \in DOMAIN start.local_files
    /\ start.rrev[p] > 0
    /\ start.rrev[p] # start.local_files[p].rev
    /\ start.lmtime[p] > start.local_files[p].modified

\* C3: a path that is in conflict when the run starts reaches handle_conflict
\* exactly once (one prompt or one use of the remembered answer), is never
\* transferred by a plain download, and is not uploaded by the local pass.
C3_ConflictOnce ==
    \A p \in Paths : ConflictAtStart(p) =>
        /\ Count("dl_plain", p) = 0
        /\ Count("ul_local", p) = 0
        /\ Count("prompt", p) + Count("memo", p) <= 1
        /\ Count("dl_conflict", p) + Count("ul_conflict", p) <= 1
        /\ p \in current_remote_file_paths =>
              /\ Count("prompt", p) + Count("memo", p) = 1
              /\ Count("dl_conflict", p) + Count("ul_conflict", p) = 1
        /\ pc \in {"scan", "local", "done"} => p \in current_remote_file_paths

C3_Witness ==
    /\ pc = "done"
    /\ \E p, q \in Paths :
          /\ ConflictAtStart(p) /\ Count("prompt", p) = 1 /\ Count("ul_conflict", p) = 1
          /\ ConflictAtStart(q) /\ Count("memo", q) = 1

\* C4 as stated: once a prompt was answered 'la' or 'ra', no later conflict of
\* the run prompts again, and each is resolved with the side of that answer.
C4_BatchPreference ==
    [][runlog.batch # None =>
          \A p \in Paths :
              /\ ev'["prompt"][p] <= ev["prompt"][p]
              /\ ev'["dl_conflict"][p] > ev["dl_conflict"][p] => runlog.batch = "True"
              /\ ev'["ul_conflict"][p] > ev["ul_conflict"][p] => runlog.batch = "False"]_vars

\* a step in which delete_remote deleted the file p and no call of the cascade failed
CascadeStep(p) ==
    /\ ev'["delete_remote"][p] > ev["delete_remote"][p]
    /\ pc' # "crashed"
    /\ runlog'.rfailed = runlog.rfailed

\* C8: when delete_remote has deleted a file and no call of its cascade failed,
\* every ancestor directory of the file that is left empty, locally or in the
\* store, has been removed on that side, and no ancestor that still holds
\* something has been.
C8_DirectoryCascade ==
    [][\A p \in Paths : CascadeStep(p) =>
          \A d \in Ancestors(p) :
              /\ d \in ldirs' => LNonEmpty(ldirs', lmtime', d)
              /\ d \in rdirs' => RNonEmpty(rdirs', rrev', d)
              /\ d \in ldirs \ ldirs' => ~LNonEmpty(ldirs', lmtime', d)
              /\ d \in rdirs \ rdirs' => ~RNonEmpty(rdirs', rrev', d)]_vars

C8_Witness ==
    /\ Count("delete_remote", P_h) = 1
    /\ {D_a, D_ab} \subseteq runlog.lremoved
    /\ {D_a, D_ab} \subseteq runlog.rdeleted
    /\ pc = "done"

\* C10: a step in which an upload or a download fails changes neither state
\* table nor the saved state; and a run that completes after a run in which the
\* transfer of a path failed has transferred that path.
C10_StateUntouched ==
    /\ [][(\E p \in Paths : ev'["fail"][p] > ev["fail"][p]) =>
             /\ local_files' = local_files
             /\ remote_files' = remote_files
             /\ disk' = disk]_vars
    /\ [](pc = "done" => \A p \in prev.failed : Transfers(p) >= 1)

C10_Witness ==
    /\ run = 2 /\ pc = "done"
    /\ \E p \in prev.failed : Count("ul_local", p) = 1

\* C11 as stated: a step in which an upload or a download of one file fails
\* skips only that file: the pass it occurred in goes on with its remaining
\* entries or candidates (the run is not left).
C11_FailureIsolation ==
    [][(\E p \in Paths : ev'["fail"][p] > ev["fail"][p]) => pc' = pc]_vars

Pickled == [local_files |-> local_files, remote_files |-> remote_files]

\* a step of the local pass: the candidate scan, an upload of check_state, a
\* delete_remote
LocalPassStep ==
    \/ pc = "scan" /\ pc' = "local"
    \/ \E p \in Paths : \/ ev'["ul_local"][p] > ev["ul_local"][p]
                        \/ ev'["delete_remote"][p] > ev["delete_remote"][p]
                        \/ ev'["delete_fail"][p] > ev["delete_fail"][p]
    \/ todo' # todo \/ oldlist' # oldlist

\* C12: the remote pass ends with the tables written to the state file, before
\* any step of the local pass; no step of the local pass writes the file, so a
\* run that leaves the local pass by an exception leaves on disk the tables as
\* they were when the remote pass ended; the end of the local pass writes the
\* tables again.
C12_PersistenceOrdering ==
    /\ [](pc = "scan" => disk = Pickled)
    /\ [](pc = "done" => disk = Pickled)
    /\ [][(pc = "entries" /\ pc' = "scan") => (disk' = Pickled /\ UNCHANGED tables)]_vars
    /\ [][(LocalPassStep /\ pc' # "list") =>
             (pc \in {"scan", "local"} /\ pc' \in {"local", "crashed"} /\ disk' = disk)]_vars

C12_Witness ==
    /\ pc = "crashed" /\ filelist # {}
    /\ disk.local_files # local_files
    /\ disk.local_files # start.local_files
    /\ \E p \in Paths : Count("fail", p) > 0

\* C13: when the remote pass has completed, every path that was tracked when
\* the pass started and that the listing did not hold as a file has been given
\* to delete_local once, has no local file and no record in either table; and
\* every tracked path that the listing did hold as a file was never given to
\* delete_local, still has its records, and still has its local file if it had
\* one.
C13_DeletionSet ==
    pc = "scan" =>
        \A p \in DOMAIN start.local_files :
            IF start.rrev[p] = 0
            THEN /\ Count("delete_local", p) = 1
                 /\ lmtime[p] = 0
                 /\ p \notin DOMAIN local_files
                 /\ p \notin DOMAIN remote_files
            ELSE /\ Count("delete_local", p) = 0
                 /\ p \in DOMAIN local_files
                 /\ p \in DOMAIN remote_files
                 /\ start.lmtime[p] > 0 => lmtime[p] > 0

C13_Witness ==
    /\ pc = "scan" /\ runlog.fetched >= 2
    /\ \E p, q \in DOMAIN start.local_files :
          /\ start.rrev[p] = 0 /\ start.lmtime[p] > 0 /\ Count("delete_local", p) = 1
          /\ start.rrev[q] > 0 /\ q \in DOMAIN local_files /\ lmtime[q] > 0

\* the step of __process_remote_entries that handles a folder entry whose path
\* holds a local file
FolderOverFileStep(path) ==
    /\ pc = "entries" /\ page # <<>>
    /\ Head(page).kind = "folder"
    /\ LocalPath(Head(page).path_display) = path
    /\ isfile(path)
    /\ page' = Tail(page)

\* C14 as stated: handling a folder entry for a path at which a local file
\* exists removes that file and its record and leaves a directory at the path.
C14_FolderOverFile ==
    [][\A path \in Paths : FolderOverFileStep(path) =>
          /\ lmtime'[path] = 0
          /\ path \notin DOMAIN local_files'
          /\ path \in ldirs']_vars

\* C15 as stated: a step in which delete_remote deletes a file that lies
\* directly in the sync root lists no remote folder, deletes no remote folder
\* (and attempts no such delete), and leaves the local pass running.
C15_CascadeStopsAtRoot ==
    [][\A p \in Paths :
          (Len(p) = 1 /\ ev'["delete_remote"][p] > ev["delete_remote"][p]) =>
              /\ runlog'.rlisted = runlog.rlisted
              /\ runlog'.rdeleted = runlog.rdeleted
              /\ runlog'.rfailed = runlog.rfailed
              /\ pc' = pc]_vars

\* ------------------------------------------------------------------------
\* The transfer mode of upload
\* ------------------------------------------------------------------------
\* the finished upload went through a session: start/append calls, then finish
SessionMode ==
    /\ calls # <<>>
    /\ calls[Len(calls)].op = "finish"
    /\ \A i \in 1..Len(calls) : calls[i].op # "upload"

\* the finished upload was one files_upload call with the whole content
SimpleMode == calls = <<Call("upload", [from |-> 0, len |-> size], NoCursor)>>

\* C16 as stated: a file of Threshold bytes or more goes through a session, a
\* file of fewer bytes goes in one request.
C16_ThresholdAsClaimed ==
    up_pc = "done" => IF size >= Threshold THEN SessionMode ELSE SimpleMode

\* C16 amended: a file of more than Threshold bytes goes through a session, a
\* file of Threshold bytes or fewer goes in one request.
C16_Threshold ==
    up_pc = "done" => IF size > Threshold THEN SessionMode ELSE SimpleMode

C16_Witness ==
    /\ up_pc = "done" /\ size = Threshold
    /\ Len(calls) = 1 /\ calls[1].op = "upload" /\ calls[1].len = Threshold

\* C17: a step in which files_delete of the file fails in delete_remote leaves
\* both tables, the local directories and the store as they were, lists no
\* remote folder and leaves the local pass running; and a step in which the
\* delete of a remote folder fails lists and deletes no ancestor of that
\* folder, and the folder is still there.
C17_DeleteFailure ==
    /\ [][\A p \in Paths :
             ev'["delete_fail"][p] > ev["delete_fail"][p] =>
                 /\ UNCHANGED <<local_files, remote_files, lmtime, ldirs, rrev, rdirs>>
                 /\ runlog' = runlog
                 /\ pc' = pc]_vars
    /\ [][\A d \in runlog'.rfailed \ runlog.rfailed :
             /\ d \in {D_a, D_ab} => d \in rdirs'
             /\ \A a \in Ancestors(d) :
                   /\ a \notin runlog'.rlisted \ runlog.rlisted
                   /\ a \notin runlog'.rdeleted \ runlog.rdeleted
                   /\ a \in rdirs => a \in rdirs']_vars

C17_Witness ==
    /\ pc = "done"
    /\ Count("delete_fail", P_g) = 1 /\ P_g \in DOMAIN local_files
    /\ Count("delete_remote", P_h) = 1
    /\ D_ab \in runlog.rfailed /\ D_ab \in rdirs
    /\ D_a \notin runlog.rlisted

\* C18: in every state of every run, started from the empty state or from the
\* state a previous run saved, local_files and remote_files hold the same
\* paths with the same record; so does the state file.
C18_TwinTables ==
    /\ local_files = remote_files
    /\ disk.local_files = disk.remote_files

C18_Witness ==
    /\ run = 2 /\ pc = "done" /\ prev.moved
    /\ DOMAIN local_files # {}
    /\ local_files # start.local_files
    /\ \E p \in Paths : Count("delete_remote", p) + Count("delete_local", p) > 0

\* C19 as stated: delete_remote is called, and a file is deleted from the
\* store, only for a path that has no local file.
C19_DeleteImpliesAbsent ==
    [][\A p \in Paths :
          (\/ ev'["delete_remote"][p] > ev["delete_remote"][p]
           \/ ev'["delete_fail"][p] > ev["delete_fail"][p]) => ~isfile(p)]_vars

\* the local copy of the tracked path p was edited after the state recorded it
EditedLocally(p) ==
    /\ p \in DOMAIN local_files
    /\ lmtime[p] > local_files[p].modified

\* C20 as stated: a step of the remote pass that deletes or overwrites the
\* local copy of a tracked file edited since it was recorded is a step of
\* handle_conflict for that path (a prompt, or a use of the remembered answer).
C20_NoSilentLoss ==
    [][\A p \in Paths :
          (pc = "entries" /\ EditedLocally(p) /\ lmtime'[p] # lmtime[p]) =>
              \/ ev'["prompt"][p] > ev["prompt"][p]
              \/ ev'["memo"][p] > ev["memo"][p]]_vars

====
